---------------------------- MODULE Spec2Model ----------------------------
(***************************************************************************)
(* Model of the waveform barcode codec of src/src/WaveformBarcodeV2.jsx:   *)
(* encodeToHeights, decodeFromHeights and the helpers they call (crc8,     *)
(* numToBytes, the Gray tables, the spread permutation, the bar layout).   *)
(*                                                                         *)
(* Numbers.  A JavaScript Number holding an integer below 2^53, and a      *)
(* BigInt of up to 48 bits, are wider than the integers of the model       *)
(* checker, so an integer is kept as two 24-bit words:                     *)
(*     [neg |-> sign, hi |-> floor(|n| / 2^24), lo |-> |n| mod 2^24]       *)
(* NaN is a value of its own.  Every arithmetic step of the source (the    *)
(* decimal parse, the 32-bit >> of numToBytes, the BigInt shifts) is       *)
(* computed on that representation.                                        *)
(*                                                                         *)
(* Text.  A JavaScript string is a sequence of one-character strings.      *)
(*                                                                         *)
(* Specifications.  SpecCodec: many identifiers and texts are encoded and  *)
(* the bars decoded as drawn.  Spec: a few identifiers, whose bars are     *)
(* misread (flipped bits, misread markers, lost or extra bars) before      *)
(* decoding.  SpecCrc: crc8 on five-byte inputs.  SpecWalk: the spread     *)
(* permutation iterated from each position.  SpecSymbols: the Gray tables  *)
(* and the permutation loops applied to sample symbol vectors.             *)
(* SpecScan: handleUploadImage and decodeCanvas on drawn pictures.         *)
(* SpecPadding: the codec with the four padding bars misread.              *)
(* SpecFine: decodeFromHeights on readings between the levels and outside  *)
(* 0..7.  SpecUrl: the URL field and handleEncodeUrl.  SpecCamera: the     *)
(* mode buttons, the camera request, stopScanning and captureAndDecode.    *)
(***************************************************************************)
EXTENDS Integers, Sequences, FiniteSets, TLC

VARIABLES
    given,      \* the integer and decoration the caller turned into mediaRef
    mediaRef,   \* useState "mediaRef": the text handed to encodeToHeights
    bytes,      \* encodeToHeights local: numToBytes(num, 5)
    checksum,   \* encodeToHeights local: crc8(bytes)
    permuted,   \* encodeToHeights local: the 16 permuted Gray levels
    encoded,    \* the value encodeToHeights returned (NULL for null)
    heights,    \* useState "heights"
    error,      \* useState "error"
    scanned,    \* the level sequence handed to decodeFromHeights
    edits,      \* how many misreadings scanned carries
    decoded,    \* useState "decoded": the value decodeFromHeights returned
    pc,         \* position in the generate / read / decode pipeline
    crcIn,      \* input of a direct crc8 call
    crcOut,     \* its result, in a sequence; empty before the call
    walk,       \* a walk along the spread permutation
    sym,        \* sixteen symbols taken through the tables and the permutation
    canvas,     \* the picture on the scan canvas (NULL: none)
    scan,       \* the locals of decodeCanvas when it returned (NULL: not run)
    localStorage,   \* the "waveform:url:<id>" entries: identifier -> URL
    location,   \* window.location.href once a redirect is made (NULL: none)
    fine,       \* a direct decodeFromHeights call on readings between levels
    urlInput,   \* useState "urlInput"
    mappedId,   \* useState "mappedId"
    urlCall,    \* the last handleEncodeUrl call: the store it found, the
                \* identifier it stored under, the draws it made (NULL: none)
    mode,       \* useState "mode"
    scanMethod, \* useState "scanMethod"
    scanning,   \* useState "scanning"
    stream,     \* useState "stream" (NULL for null)
    requested,  \* how many getUserMedia calls startScanning has made
    pending,    \* how many of them are neither resolved nor rejected
    live,       \* the streams handed out whose tracks are not stopped
    capture     \* a captureAndDecode call whose waitForMeta() has not resolved:
                \* the stream its stopScanning closes over (NULL: none)

scanVars == <<canvas, scan, localStorage, location>>

urlVars == <<fine, urlInput, mappedId, urlCall>>

cameraVars == <<mode, scanMethod, scanning, stream, requested, pending, live,
                capture>>

uiVars == <<urlVars, cameraVars>>

vars == <<given, mediaRef, bytes, checksum, permuted, encoded, heights, error,
          scanned, edits, decoded, pc, crcIn, crcOut, walk, sym, scanVars, uiVars>>

NULL == [null |-> TRUE]

-----------------------------------------------------------------------------
(* Program constants *)

NUM_BARS == 23
NUM_SYMBOLS == 16

\* mutant: the last two entries the other way round
GRAY_ENCODE_Swapped == <<0, 1, 3, 2, 6, 7, 4, 5>>

\* mutant: plain binary, no Gray code
GRAY_ENCODE_Binary == <<0, 1, 2, 3, 4, 5, 6, 7>>

GRAY_ENCODE == <<0, 1, 3, 2, 6, 7, 5, 4>>
\* mutant: the encode table used to decode
GRAY_DECODE_AsEncode == <<0, 1, 3, 2, 6, 7, 5, 4>>

GRAY_DECODE == <<0, 1, 3, 2, 7, 6, 4, 5>>

-----------------------------------------------------------------------------
(* Integers as two 24-bit words *)

Word == 2^24

NaN == [nan |-> TRUE]

isNaN(n) == n = NaN

MkNum(neg, hi, lo) == [neg |-> neg, hi |-> hi, lo |-> lo]

Zero == MkNum(FALSE, 0, 0)

\* n * 10 + d, the step of a decimal parse
MulAdd10(n, d) ==
    LET low == n.lo * 10 + d
    IN  MkNum(n.neg, n.hi * 10 + (low \div Word), low % Word)

\* floor(n / 10) and n mod 10, the step of a decimal print
Div10(n) ==
    LET mid == (n.hi % 10) * Word + n.lo
    IN  MkNum(n.neg, n.hi \div 10, mid \div 10)

Mod10(n) == ((n.hi % 10) * Word + n.lo) % 10

IsZero(n) == n.hi = 0 /\ n.lo = 0

\* num < 0 (false for -0)
LessThanZero(n) == n.neg /\ ~IsZero(n)

\* 0xffffffffff as two words
MAX_40BIT == MkNum(FALSE, 2^16 - 1, Word - 1)

\* a > b for a, b >= 0
Greater(a, b) == a.hi > b.hi \/ (a.hi = b.hi /\ a.lo > b.lo)

-----------------------------------------------------------------------------
(* Text *)

Digits == <<"0", "1", "2", "3", "4", "5", "6", "7", "8", "9">>

IsDigit(c) == \E d \in 1..10 : Digits[d] = c

DigitValue(c) == (CHOOSE d \in 1..10 : Digits[d] = c) - 1

RECURSIVE DigitsOf(_)
DigitsOf(n) ==
    IF n.hi = 0 /\ n.lo < 10 THEN <<Digits[n.lo + 1]>>
    ELSE Append(DigitsOf(Div10(n)), Digits[Mod10(n) + 1])

\* String(num) for an integer below 10^21: sign and decimal digits
NumberToString(n) ==
    IF isNaN(n) THEN <<"N", "a", "N">>
    ELSE (IF LessThanZero(n) THEN <<"-">> ELSE <<>>)
         \o DigitsOf(MkNum(FALSE, n.hi, n.lo))

RECURSIVE TrimStart(_)
TrimStart(s) ==
    IF s # <<>> /\ s[1] = " " THEN TrimStart(Tail(s)) ELSE s

RECURSIVE DigitPrefix(_)
DigitPrefix(s) ==
    IF s # <<>> /\ IsDigit(s[1]) THEN <<s[1]>> \o DigitPrefix(Tail(s))
    ELSE <<>>

RECURSIVE DigitsValue(_, _)
DigitsValue(z, acc) ==
    IF z = <<>> THEN acc
    ELSE DigitsValue(Tail(z), MulAdd10(acc, DigitValue(z[1])))

\* Number.parseInt(text, 10): leading white space is skipped, one sign is
\* read, then the longest run of decimal digits; what follows is ignored;
\* NaN when there is no digit.
parseInt(s) ==
    LET t    == TrimStart(s)
        sign == t # <<>> /\ t[1] \in {"-", "+"}
        body == IF sign THEN Tail(t) ELSE t
        z    == DigitPrefix(body)
        mag  == DigitsValue(z, Zero)
    IN  IF z = <<>> THEN NaN
        ELSE MkNum(sign /\ t[1] = "-", mag.hi, mag.lo)

-----------------------------------------------------------------------------
(* Bit operations on 8-bit values *)

RECURSIVE XorBits(_, _, _)
XorBits(a, b, n) ==
    IF n = 0 THEN 0
    ELSE ((a + b) % 2) + 2 * XorBits(a \div 2, b \div 2, n - 1)

\* a ^ b for a, b in 0..255
Xor8(a, b) == XorBits(a, b, 8)

-----------------------------------------------------------------------------
(* crc8 *)

\* mutant: the polynomial is folded in before the shift
Crc8ShiftXorFirst(crc) ==
    IF (crc \div 128) % 2 = 1 THEN (Xor8(crc, 7) * 2) % 256
    ELSE (crc * 2) % 256

\* one pass of the inner loop body
Crc8Shift(crc) ==
    IF (crc \div 128) % 2 = 1 THEN Xor8((crc * 2) % 256, 7)
    ELSE (crc * 2) % 256

RECURSIVE Crc8Bits(_, _)
Crc8Bits(crc, i) ==
    IF i = 8 THEN crc ELSE Crc8Bits(Crc8Shift(crc), i + 1)

\* the eight passes of the inner loop, for every value crc can hold after
\* crc ^= byte
Crc8Byte == [crc \in 0..255 |-> Crc8Bits(crc, 0)]

RECURSIVE Crc8From(_, _)
Crc8From(crc, data) ==
    IF data = <<>> THEN crc
    ELSE Crc8From(Crc8Byte[Xor8(crc, data[1])], Tail(data))

crc8(data) == Crc8From(0, data)

-----------------------------------------------------------------------------
(* numToBytes *)

\* (num >> count) & 0xff for num >= 0.  The operands of >> are ToInt32(num),
\* which keeps the low 32 bits of num, and count & 31.
ShiftRightByte(num, count) ==
    LET s    == count % 32
        top  == num.hi % 256             \* bits 24..31 of ToInt32(num)
        sign == top \div 128             \* bit 31, copied in by >>
        fill == IF sign = 1 THEN 256 - 2^(32 - s) ELSE 0
    IN  IF s <= 16 THEN (num.lo \div 2^s) % 256
        ELSE IF s < 24 THEN ((num.lo \div 2^s) + top * 2^(24 - s)) % 256
        ELSE (top \div 2^(s - 24)) + fill

RECURSIVE NumToBytesFrom(_, _)
NumToBytesFrom(num, i) ==
    IF i < 0 THEN <<>>
    ELSE <<ShiftRightByte(num, i * 8)>> \o NumToBytesFrom(num, i - 1)

numToBytes(num, len) == NumToBytesFrom(num, len - 1)

-----------------------------------------------------------------------------
(* encodeToHeights *)

\* (BigInt(num) << 8n) | BigInt(checksum), a 48-bit value
Combine(num, sum) ==
    MkNum(FALSE, num.hi * 256 + (num.lo \div 2^16), (num.lo % 2^16) * 256 + sum)

\* Number((combined >> BigInt(i * 3)) & 7n)
Group3(combined, i) ==
    IF i >= 8 THEN (combined.hi \div 8^(i - 8)) % 8
    ELSE (combined.lo \div 8^i) % 8

\* dataHeights: the 16 groups, most significant first, Gray encoded
GrayGroups(combined) ==
    [k \in 1..16 |-> GRAY_ENCODE[Group3(combined, 16 - k) + 1]]

\* mutant: another odd multiplier
SpreadIndex5(i) == (i * 5) % NUM_SYMBOLS

\* mutant: a multiplier that shares a factor with 16
SpreadIndex6(i) == (i * 6) % NUM_SYMBOLS

\* mutant: a rotation by 7 instead of a multiplication
SpreadIndexShift(i) == (i + 7) % NUM_SYMBOLS

\* the spread permutation on positions 0..15
SpreadIndex(i) == (i * 7) % NUM_SYMBOLS

\* permuted[i] = dataHeights[(i * 7) % 16]
Permute(dataHeights) ==
    [k \in 1..16 |-> dataHeights[SpreadIndex(k - 1) + 1]]

\* mutant: the second half starts one symbol early
LayoutOffByOne(perm) ==
    <<0>>
    \o [k \in 1..10 |-> IF k - 1 < Len(perm) THEN perm[k] ELSE 0]
    \o <<7>>
    \o [k \in 1..10 |-> IF k + 8 < Len(perm) THEN perm[k + 9] ELSE 0]
    \o <<0>>

\* heights: [0] + 10 slots + [7] + 10 slots + [0]
Layout(perm) ==
    <<0>>
    \o [k \in 1..10 |-> IF k - 1 < Len(perm) THEN perm[k] ELSE 0]
    \o <<7>>
    \o [k \in 1..10 |-> IF k + 9 < Len(perm) THEN perm[k + 10] ELSE 0]
    \o <<0>>

\* mutant: num >= MAX_40BIT is refused
InvalidInputAtMax(num) ==
    isNaN(num) \/ LessThanZero(num) \/ ~Greater(MAX_40BIT, num)

\* the range check of encodeToHeights
InvalidInput(num) ==
    isNaN(num) \/ LessThanZero(num) \/ Greater(num, MAX_40BIT)

\* the locals of encodeToHeights when it returns
EncodeLocals(text) ==
    LET num == parseInt(text)
    IN  IF InvalidInput(num)
        THEN [bytes |-> <<>>, checksum |-> 0, permuted |-> <<>>, heights |-> NULL]
        ELSE LET b == numToBytes(num, 5)
                 c == crc8(b)
                 p == Permute(GrayGroups(Combine(num, c)))
             IN  [bytes |-> b, checksum |-> c, permuted |-> p,
                  heights |-> Layout(p)]

encodeToHeights(text) == EncodeLocals(text).heights

-----------------------------------------------------------------------------
(* decodeFromHeights *)

\* heights[1..10] then heights[12..21]
DataSlots(h) ==
    [k \in 1..20 |-> IF k <= 10 THEN h[k + 1] ELSE h[k + 2]]

\* mutant: the reverse loop runs over all 20 data slots
RECURSIVE UnpermuteFrom20(_, _, _)
UnpermuteFrom20(dataHeights, i, acc) ==
    IF i = 20 THEN acc
    ELSE UnpermuteFrom20(dataHeights, i + 1,
                         [acc EXCEPT ![SpreadIndex(i) + 1] = dataHeights[i + 1]])

\* unpermuted[(i * 7) % 16] = dataHeights[i], i = 0..15, on new Array(16)
RECURSIVE UnpermuteFrom(_, _, _)
UnpermuteFrom(dataHeights, i, acc) ==
    IF i = 16 THEN acc
    ELSE UnpermuteFrom(dataHeights, i + 1,
                       [acc EXCEPT ![SpreadIndex(i) + 1] = dataHeights[i + 1]])

Unpermute(dataHeights) ==
    UnpermuteFrom(dataHeights, 0, [k \in 1..16 |-> 0])

\* the positions of new Array(16) the loop never writes: they stay undefined
Unwritten == (0..15) \ {SpreadIndex(i) : i \in 0..15}

\* A reading is a number of one-ths of a level: one = 1 for the integer levels
\* decodeCanvas hands over, one = 4 for readings in quarters of a level.

\* Math.round(q / one): the nearest integer, a half goes upwards
\* (Math.round(2.5) = 3, Math.round(-2.5) = -2, Math.round(-0.25) = -0)
Round(q, one) == (2 * q + one) \div (2 * one)

\* mutant: Math.floor in place of Math.round
ClampLevelFloor(q, one) ==
    LET r == q \div one
        m == IF r > 0 THEN r ELSE 0
    IN  IF m < 7 THEN m ELSE 7

\* Math.min(7, Math.max(0, Math.round(x)))
ClampLevel(q, one) ==
    LET r == Round(q, one)
        m == IF r > 0 THEN r ELSE 0
    IN  IF m < 7 THEN m ELSE 7

\* combined = (combined << 3n) | BigInt(bits)
ShiftIn3(combined, bits) ==
    LET low == combined.lo * 8 + bits
    IN  MkNum(FALSE, (combined.hi * 8 + (low \div Word)) % Word, low % Word)

RECURSIVE Reassemble(_, _, _, _)
Reassemble(unpermuted, i, combined, one) ==
    IF i = 16 THEN combined
    ELSE Reassemble(unpermuted, i + 1,
                    ShiftIn3(combined,
                             GRAY_DECODE[ClampLevel(unpermuted[i + 1], one) + 1]),
                    one)

\* mutant: a 7-bit mask
LowByte7(combined) == combined.lo % 128

\* Number(combined & 0xffn)
LowByte(combined) == combined.lo % 256

\* Number(combined >> 8n)
DropByte(combined) ==
    MkNum(FALSE, combined.hi \div 256,
          (combined.hi % 256) * 2^16 + (combined.lo \div 256))

\* mutant: no tolerance at the end markers
BadEndMarkersStrict(h, one) == h[1] > 0 \/ h[NUM_BARS] > 0

\* mutant: the end markers are looked at after the center marker
BadEndMarkersAfterCenter(h, one) ==
    (h[1] > one \/ h[NUM_BARS] > one) /\ ~(h[12] < 6 * one)

\* heights[0] > 1 || heights[NUM_BARS - 1] > 1
BadEndMarkers(h, one) == h[1] > one \/ h[NUM_BARS] > one

\* heights[11] < 6
BadCenterMarker(h, one) == h[12] < 6 * one

\* grayVal of each pass of the Gray decode loop, in loop order
GrayVals(h, one) ==
    LET unpermuted == Unpermute(DataSlots(h))
    IN  [i \in 1..NUM_SYMBOLS |-> ClampLevel(unpermuted[i], one)]

\* decodeFromHeights(heights), heights[k] = h[k + 1] / one
decodeReadings(h, one) ==
    IF Len(h) # NUM_BARS THEN [error |-> "Invalid bar count"]
    ELSE IF BadEndMarkers(h, one) THEN [error |-> "Invalid start/end markers"]
    ELSE IF BadCenterMarker(h, one) THEN [error |-> "Invalid center reference bar"]
    ELSE LET unpermuted == Unpermute(DataSlots(h))
         IN  IF Unwritten # {}
             THEN [threw |-> "TypeError"]   \* BigInt(GRAY_DECODE[NaN])
             ELSE LET combined == Reassemble(unpermuted, 0, Zero, one)
                      sum      == LowByte(combined)
                      data     == DropByte(combined)
                      calculatedCrc == crc8(numToBytes(data, 5))
                  IN  IF calculatedCrc # sum
                      THEN [error |-> "CRC mismatch", expected |-> calculatedCrc,
                            got |-> sum, data |-> data]
                      ELSE [data |-> data, valid |-> TRUE]

\* decodeFromHeights on integer levels
decodeFromHeights(h) == decodeReadings(h, 1)

-----------------------------------------------------------------------------
(* decodeCanvas: the bars of a picture are found, measured, turned into    *)
(* levels and decoded.                                                     *)
(*                                                                         *)
(* A picture is white paper with upright bars, as drawHeights lays them    *)
(* out (bars as rectangles): bar k is barWidth columns wide, barHeights[k] *)
(* rows high, centred on the middle row, padding columns from the left     *)
(* edge, spacing columns from the next bar, and right columns lie between  *)
(* the last bar and the right edge.  A colour is <<red, green, blue>>.     *)
(* The pixel loops of decodeCanvas are too long to unroll one call per     *)
(* pixel, so each loop is given by what it leaves behind: after column x   *)
(* of the inner for loop inBar equals isBlack(x, centerY), so a bar is     *)
(* closed at each column x that is not black while column x - 1 is, and    *)
(* barStart is then the last column before x at which a run began.         *)

\* most rows one unit of bar height takes in a picture
MaxUnit == 3

\* isBlack: brightness < 128
BlackBelow == 128

\* barWidth >= 8
MinBarWidth == 8

\* mutant: exactly 15 bars are refused too
MinBars16 == 15 + 1

\* bestBars.length < 15
MinBars == 15

\* unitH = maxHeight / 8
UnitsInMax == 8

\* the first row of bar k: y = centerY - barHeight / 2
BarTop(cv, k) == (cv.height - cv.barHeights[k]) \div 2

\* isRef: i === 0 || i === 11 || i === result.length - 1
IsRef(cv, i) == i = 0 \/ i = 11 \/ i = Len(cv.barHeights) - 1

\* the image data at column x, row y of the canvas
Pixel(cv, x, y) ==
    LET pitch == cv.barWidth + cv.spacing
        i == (x - cv.padding) \div pitch
    IN  IF /\ x >= cv.padding
           /\ i < Len(cv.barHeights)
           /\ (x - cv.padding) % pitch < cv.barWidth
           /\ y >= BarTop(cv, i + 1)
           /\ y < BarTop(cv, i + 1) + cv.barHeights[i + 1]
        THEN IF IsRef(cv, i) THEN cv.refInk ELSE cv.ink
        ELSE cv.paper

\* getBrightness, times three: (data[i] + data[i + 1] + data[i + 2]) / 3 is
\* kept as the sum, so that it stays a whole number
getBrightness(cv, x, y) ==
    IF x < 0 \/ x >= cv.width \/ y < 0 \/ y >= cv.height THEN 3 * 255
    ELSE LET c == Pixel(cv, x, y) IN c[1] + c[2] + c[3]

\* mutant: a pixel is black when it is darker than the paper of the picture
isBlackAdaptive(cv, x, y) ==
    LET c == cv.paper IN getBrightness(cv, x, y) < c[1] + c[2] + c[3]

isBlack(cv, x, y) == getBrightness(cv, x, y) < 3 * BlackBelow

\* [0.4, 0.45, 0.5, 0.55, 0.6] as fractions: Math.floor(canvas.height * r)
\* is the whole part of height * numerator / denominator
ScanRatios == <<<<2, 5>>, <<9, 20>>, <<1, 2>>, <<11, 20>>, <<3, 5>>>>

scanLines(cv) ==
    [k \in 1..Len(ScanRatios) |->
        (cv.height * ScanRatios[k][1]) \div ScanRatios[k][2]]

SetMax(S) == CHOOSE m \in S : \A x \in S : x <= m

SetMin(S) == CHOOSE m \in S : \A x \in S : m <= x

\* while (topY > 0 && isBlack(centerX, topY - 1)) topY--
TopY(cv, column, centerY) ==
    SetMax({0} \cup {t \in 1..centerY : ~isBlack(cv, column, t - 1)})

\* while (bottomY < canvas.height - 1 && isBlack(centerX, bottomY + 1)) bottomY++
BottomY(cv, column, centerY) ==
    SetMin({cv.height - 1}
           \cup {b \in centerY..(cv.height - 2) : ~isBlack(cv, column, b + 1)})

\* the bars pushed at the columns of ends, from left to right; centerX is
\* kept in half columns (2 * barStart + barWidth)
RECURSIVE BarsFrom(_, _, _, _, _)
BarsFrom(cv, centerY, starts, ends, bars) ==
    IF ends = {} THEN bars
    ELSE LET x        == SetMin(ends)
             barStart == SetMax({b \in starts : b < x})
             barWidth == x - barStart
             column   == barStart + (barWidth \div 2)
         IN  BarsFrom(cv, centerY, starts, ends \ {x},
                      IF barWidth >= MinBarWidth
                      THEN Append(bars,
                               [barStart |-> barStart, barWidth |-> barWidth,
                                centerX |-> 2 * barStart + barWidth,
                                height |-> BottomY(cv, column, centerY)
                                           - TopY(cv, column, centerY) + 1])
                      ELSE bars)

\* the bars of row centerY: black holds the columns where isBlack, starts
\* those where black && !inBar, ends those where !black && inBar
ScanRow(cv, centerY) ==
    LET columns == 0..(cv.width - 1)
        black   == {x \in columns : isBlack(cv, x, centerY)}
        starts  == {x \in black : (x - 1) \notin black}
        ends    == {x \in columns \ black : (x - 1) \in black}
    IN  BarsFrom(cv, centerY, starts, ends, <<>>)

\* for (const centerY of scanLines): the bars of each row
RECURSIVE LinesFrom(_, _, _, _)
LinesFrom(cv, rows, k, lines) ==
    IF k > Len(rows) THEN lines
    ELSE LinesFrom(cv, rows, k + 1, Append(lines, ScanRow(cv, rows[k])))

\* if (bars.length > bestBars.length) bestBars = bars, line after line
RECURSIVE BestFrom(_, _, _)
BestFrom(lines, k, bestBars) ==
    IF k > Len(lines) THEN bestBars
    ELSE BestFrom(lines, k + 1,
                  IF Len(lines[k]) > Len(bestBars) THEN lines[k] ELSE bestBars)

\* Math.round(n / d) for n >= 0, d > 0: halves go up
RoundRatio(n, d) == (2 * n + d) \div (2 * d)

\* mutant: the height is divided by maxHeight, not by unitH
LevelOfNoUnit(height, maxHeight) ==
    LET level == RoundRatio(height, maxHeight) - 1
        m == IF level < 7 THEN level ELSE 7
    IN  IF m > 0 THEN m ELSE 0

\* level = Math.round(bar.height / unitH) - 1 with unitH = maxHeight / 8;
\* Math.max(0, Math.min(7, level))
LevelOf(height, maxHeight) ==
    LET level == RoundRatio(height * UnitsInMax, maxHeight) - 1
        m == IF level < 7 THEN level ELSE 7
    IN  IF m > 0 THEN m ELSE 0

\* mutant: the padded levels are not cut
FinalHeightsUncut(detectedHeights) ==
    detectedHeights \o [k \in 1..(NUM_BARS - Len(detectedHeights)) |-> 0]

\* while (detectedHeights.length < NUM_BARS) detectedHeights.push(0);
\* detectedHeights.slice(0, NUM_BARS)
FinalHeights(detectedHeights) ==
    SubSeq(detectedHeights \o [k \in 1..(NUM_BARS - Len(detectedHeights)) |-> 0],
           1, NUM_BARS)

\* localStorage.getItem("waveform:url:" + key): NULL for null, else the
\* stored text in a record
getItem(store, key) ==
    IF key \in DOMAIN store THEN [value |-> store[key]] ELSE NULL

\* if (mapped): null and the empty text do not count
Truthy(mapped) == mapped # NULL /\ mapped.value # ""

\* mutant: any result that carries an identifier is looked up
LooksUpAnyData(result) == "data" \in DOMAIN result

\* if (result && result.valid)
LooksUp(result) == "valid" \in DOMAIN result /\ result.valid

InsufficientBars(n) ==
    "Only found " \o ToString(n) \o " bars. Need at least 15."

\* the locals of decodeCanvas when it returns
decodeCanvas(cv, store) ==
    LET rows     == scanLines(cv)
        lines    == LinesFrom(cv, rows, 1, <<>>)
        bestBars == BestFrom(lines, 1, <<>>)
    IN  IF Len(bestBars) < MinBars
        THEN [lines |-> lines, bestBars |-> bestBars,
              detectedHeights |-> <<>>, finalHeights |-> <<>>, mapped |-> NULL,
              returned |-> [error |-> InsufficientBars(Len(bestBars))]]
        ELSE LET maxHeight == SetMax({bestBars[k].height : k \in 1..Len(bestBars)})
                 detectedHeights ==
                     [k \in 1..Len(bestBars) |->
                         LevelOf(bestBars[k].height, maxHeight)]
                 finalHeights == FinalHeights(detectedHeights)
                 result == decodeFromHeights(finalHeights)
                 mapped == IF LooksUp(result)
                           THEN getItem(store, NumberToString(result.data))
                           ELSE NULL
             IN  [lines |-> lines, bestBars |-> bestBars,
                  detectedHeights |-> detectedHeights,
                  finalHeights |-> finalHeights, mapped |-> mapped,
                  returned |->
                      IF Truthy(mapped)
                      THEN [result |-> result, redirected |-> TRUE]
                      ELSE [result |-> result]]

-----------------------------------------------------------------------------
(* Inputs *)

\* most misreadings (a flipped bit, a misread marker, a lost or an extra bar)
\* a reading of the bars may carry
MaxEdits == 2

\* identifiers are tried up to 2^(IdBits + OverBits)
OverBits == 2

IdBits == 40

Pow2(k) == IF k < 24 THEN MkNum(FALSE, 0, 2^k) ELSE MkNum(FALSE, 2^(k - 24), 0)

Pow2Less1(k) ==
    IF k <= 24 THEN MkNum(FALSE, 0, 2^k - 1)
    ELSE MkNum(FALSE, 2^(k - 24) - 1, Word - 1)

FromBytes(b) ==
    MkNum(FALSE, b[1] * 256 + b[2], b[3] * 65536 + b[4] * 256 + b[5])

ByteSamples == {0, 165, 255}

\* 1234567890, the initial mediaRef
InitialId == MkNum(FALSE, 73, 9831122)

IdSamples ==
    {Pow2(k) : k \in 0..(IdBits + OverBits)}
    \cup {Pow2Less1(k) : k \in 0..(IdBits + OverBits)}
    \cup {FromBytes(b) : b \in [1..5 -> ByteSamples]}
    \cup {InitialId}

Suffixes == {<<>>, <<".", "5">>, <<"a", "b", "c">>}

Prefixes == {<<>>, <<"-">>}

\* other texts: no digit at the start, or a digit after white space or "+"
RawTexts ==
    {<<>>, <<"a", "b", "c">>, <<".", "5">>, <<"-">>, <<"a", "1">>,
     <<" ", "4", "2">>, <<"+", "7">>, <<"1", "e", "3">>}

Decorated(g) == g.pre \o NumberToString(g.mag) \o g.sfx

AllGiven ==
    [kind : {"int"}, pre : Prefixes, mag : IdSamples, sfx : Suffixes]

\* the identifiers whose readings are tampered with
ScanIds ==
    {Pow2Less1(0), InitialId, Pow2Less1(IdBits), FromBytes(<<165, 255, 0, 1, 90>>)}

ScanGiven == [kind : {"int"}, pre : {<<>>}, mag : ScanIds, sfx : {<<>>}]

\* 0-based slots
MarkerSlots == {0, 11, NUM_BARS - 1}

SymbolSlots == (1..10) \cup (12..17)

\* the data slots that carry no symbol
PaddingSlots == 18..21

\* the levels tried at a padding slot
PaddingReadings == {4, 7}

\* the readings tried at a marker slot
MarkerReadings(slot) == IF slot = 11 THEN {3, 5, 6, 7} ELSE {0, 1, 2, 5}

-----------------------------------------------------------------------------
(* State machine *)

\* nothing on the scan canvas, an empty mapping store, no redirect
NoScan ==
    /\ canvas = NULL
    /\ scan = NULL
    /\ localStorage = <<>>
    /\ location = NULL

\* no direct call on readings between levels
NoUi ==
    /\ fine = NULL
    /\ urlInput = <<>>
    /\ mappedId = <<>>
    /\ urlCall = NULL
    /\ mode = "generate"
    /\ scanMethod = "camera"
    /\ scanning = FALSE
    /\ stream = NULL
    /\ requested = 0
    /\ pending = 0
    /\ live = {}
    /\ capture = NULL

Idle ==
    /\ crcIn = <<>>
    /\ crcOut = <<>>
    /\ walk = NULL
    /\ sym = NULL
    /\ NoScan
    /\ NoUi

Fresh(g, text) ==
    /\ given = g
    /\ mediaRef = text
    /\ bytes = <<>>
    /\ checksum = 0
    /\ permuted = <<>>
    /\ encoded = NULL
    /\ heights = <<>>
    /\ error = ""
    /\ scanned = <<>>
    /\ edits = 0
    /\ decoded = NULL
    /\ pc = "input"

InitCodec ==
    /\ \/ \E g \in AllGiven : Fresh(g, Decorated(g))
       \/ \E t \in RawTexts : Fresh([kind |-> "raw"], t)
    /\ Idle

Init ==
    /\ \E g \in ScanGiven : Fresh(g, Decorated(g))
    /\ Idle

\* generateBarcode: encode mediaRef, show an error or the heights
generateBarcode ==
    /\ pc = "input"
    /\ LET loc == EncodeLocals(mediaRef)
       IN  /\ bytes' = loc.bytes
           /\ checksum' = loc.checksum
           /\ permuted' = loc.permuted
           /\ encoded' = loc.heights
           /\ IF loc.heights = NULL
              THEN /\ error' = "Enter a number between 0 and 1099511627775"
                   /\ heights' = heights
              ELSE /\ error' = ""
                   /\ heights' = loc.heights
    /\ pc' = "generated"
    /\ UNCHANGED <<given, mediaRef, scanned, edits, decoded, crcIn, crcOut, walk, sym, scanVars, uiVars>>

\* the bars are read back exactly as drawn
ReadBars ==
    /\ pc = "generated"
    /\ encoded # NULL
    /\ scanned' = heights
    /\ edits' = 0
    /\ pc' = "read"
    /\ UNCHANGED <<given, mediaRef, bytes, checksum, permuted, encoded, heights,
                   error, decoded, crcIn, crcOut, walk, sym, scanVars, uiVars>>

\* level with bit b (0..2) flipped
FlipLevelBit(level, b) ==
    IF (level \div 2^b) % 2 = 1 THEN level - 2^b ELSE level + 2^b

\* one more misreading of the bars
Tamper(reading) ==
    /\ pc = "read"
    /\ edits < MaxEdits
    /\ reading # scanned
    /\ scanned' = reading
    /\ edits' = edits + 1
    /\ UNCHANGED <<given, mediaRef, bytes, checksum, permuted, encoded, heights,
                   error, decoded, pc, crcIn, crcOut, walk, sym, scanVars, uiVars>>

\* one bit of one symbol slot is read wrong
FlipBit ==
    \E slot \in SymbolSlots, b \in 0..2 :
        /\ slot < Len(scanned)
        /\ Tamper([scanned EXCEPT ![slot + 1] = FlipLevelBit(@, b)])

\* a marker slot is read at another level
MisreadMarker ==
    \E slot \in MarkerSlots :
        /\ slot < Len(scanned)
        /\ \E v \in MarkerReadings(slot) :
               Tamper([scanned EXCEPT ![slot + 1] = v])

\* the last bar is lost
DropBar ==
    /\ scanned # <<>>
    /\ Tamper(SubSeq(scanned, 1, Len(scanned) - 1))

\* one more bar is seen at the end
ExtraBar ==
    \E v \in {0, 7} : Tamper(Append(scanned, v))

\* decodeFromHeights on the reading; setDecoded(result)
Decode ==
    /\ pc = "read"
    /\ decoded' = decodeFromHeights(scanned)
    /\ pc' = "decoded"
    /\ UNCHANGED <<given, mediaRef, bytes, checksum, permuted, encoded, heights,
                   error, scanned, edits, crcIn, crcOut, walk, sym, scanVars, uiVars>>

\* a padding slot is read at a level other than 0
MisreadPadding ==
    \E slot \in PaddingSlots :
        /\ slot < Len(scanned)
        /\ \E v \in PaddingReadings :
               Tamper([scanned EXCEPT ![slot + 1] = v])

NextCodec == generateBarcode \/ ReadBars \/ Decode

SpecCodec == InitCodec /\ [][NextCodec]_vars

Next ==
    \/ generateBarcode
    \/ ReadBars
    \/ FlipBit
    \/ MisreadMarker
    \/ DropBar
    \/ ExtraBar
    \/ Decode

Spec == Init /\ [][Next]_vars

\* readings of 23 bars with misread symbols, markers and padding
NextPadding ==
    \/ generateBarcode
    \/ ReadBars
    \/ FlipBit
    \/ MisreadMarker
    \/ MisreadPadding
    \/ Decode

InitPadding ==
    /\ \E g \in ScanGiven :
           /\ g.mag \in {InitialId, Pow2Less1(IdBits)}
           /\ Fresh(g, Decorated(g))
    /\ Idle

SpecPadding == InitPadding /\ [][NextPadding]_vars

-----------------------------------------------------------------------------
(* crc8 called on its own *)

CrcByteSamples == {0, 1, 7, 128, 165, 255}

InitCrc ==
    /\ Fresh([kind |-> "raw"], <<>>)
    /\ crcIn \in [1..5 -> CrcByteSamples]
    /\ crcOut = <<>>
    /\ walk = NULL
    /\ sym = NULL
    /\ NoScan
    /\ NoUi

CallCrc8 ==
    /\ crcIn # <<>>
    /\ crcOut = <<>>
    /\ crcOut' = <<crc8(crcIn)>>
    /\ UNCHANGED <<given, mediaRef, bytes, checksum, permuted, encoded, heights,
                   error, scanned, edits, decoded, pc, crcIn, walk, sym,
                   scanVars, uiVars>>

SpecCrc == InitCrc /\ [][CallCrc8]_vars

-----------------------------------------------------------------------------
(* The spread permutation applied again and again to one position *)

InitWalk ==
    /\ Fresh([kind |-> "raw"], <<>>)
    /\ crcIn = <<>>
    /\ crcOut = <<>>
    /\ sym = NULL
    /\ NoScan
    /\ NoUi
    /\ \E i \in 0..(NUM_SYMBOLS - 1) :
           walk = [start |-> i, pos |-> i, steps |-> 0, seen |-> {i}]

WalkStep ==
    /\ walk # NULL
    /\ walk.steps < NUM_SYMBOLS
    /\ walk' = [walk EXCEPT !.pos = SpreadIndex(@),
                            !.steps = @ + 1,
                            !.seen = @ \cup {SpreadIndex(walk.pos)}]
    /\ UNCHANGED <<given, mediaRef, bytes, checksum, permuted, encoded, heights,
                   error, scanned, edits, decoded, pc, crcIn, crcOut, sym,
                   scanVars, uiVars>>

SpecWalk == InitWalk /\ [][WalkStep]_vars

-----------------------------------------------------------------------------
(* Sixteen symbols taken through the Gray tables, the spread permutation,  *)
(* the bar layout and back                                                 *)

\* how often the decode loop writes each position of unpermuted
RECURSIVE UnpermuteWrites(_, _)
UnpermuteWrites(i, acc) ==
    IF i = 16 THEN acc
    ELSE UnpermuteWrites(i + 1, [acc EXCEPT ![SpreadIndex(i) + 1] = @ + 1])

\* dataHeights.push(GRAY_ENCODE[bits]) for each symbol
GrayEncodeAll(symbols) == [k \in 1..Len(symbols) |-> GRAY_ENCODE[symbols[k] + 1]]

\* bits = GRAY_DECODE[grayVal] for each level
GrayDecodeAll(levels) == [k \in 1..Len(levels) |-> GRAY_DECODE[levels[k] + 1]]

\* sixteen distinct tags, in steps of a from b
Tagged(a, b) == [k \in 1..NUM_SYMBOLS |-> (a * (k - 1) + b) % NUM_SYMBOLS]

\* the eight symbols in rising order, twice, from r
Ramp(r) == [k \in 1..NUM_SYMBOLS |-> (k - 1 + r) % 8]

\* level v at the positions of S, zero elsewhere
Hot(S, v) == [k \in 1..NUM_SYMBOLS |-> IF k \in S THEN v ELSE 0]

SymbolSamples ==
    {Tagged(a, b) : a \in {1, 3}, b \in 0..(NUM_SYMBOLS - 1)}
    \cup {Ramp(r) : r \in 0..7}
    \cup {Hot(S, 7) : S \in {T \in SUBSET (1..NUM_SYMBOLS) : Cardinality(T) \in {1, 2}}}

AllLevels(s) == \A k \in 1..Len(s) : s[k] \in 0..7

InitSymbols ==
    /\ Fresh([kind |-> "raw"], <<>>)
    /\ crcIn = <<>>
    /\ crcOut = <<>>
    /\ walk = NULL
    /\ NoScan
    /\ NoUi
    /\ \E s \in SymbolSamples :
           sym = [src |-> s, gray |-> <<>>, back |-> <<>>, binary |-> <<>>,
                  level |-> <<>>, permuted |-> <<>>, laid |-> <<>>,
                  unpermuted |-> <<>>, writes |-> <<>>]

SymbolStep(next) ==
    /\ sym # NULL
    /\ sym' = next
    /\ UNCHANGED <<given, mediaRef, bytes, checksum, permuted, encoded, heights,
                   error, scanned, edits, decoded, pc, crcIn, crcOut, walk,
                   scanVars, uiVars>>

\* the encoder's table lookup on each symbol
GrayEncodeSymbols ==
    /\ sym # NULL /\ sym.gray = <<>> /\ AllLevels(sym.src)
    /\ SymbolStep([sym EXCEPT !.gray = GrayEncodeAll(sym.src)])

\* the decoder's table lookup on what the encoder's gave
GrayDecodeSymbols ==
    /\ sym # NULL /\ sym.gray # <<>> /\ sym.back = <<>>
    /\ SymbolStep([sym EXCEPT !.back = GrayDecodeAll(sym.gray)])

\* the decoder's table lookup on sixteen levels as read
GrayDecodeLevels ==
    /\ sym # NULL /\ sym.binary = <<>> /\ AllLevels(sym.src)
    /\ SymbolStep([sym EXCEPT !.binary = GrayDecodeAll(sym.src)])

\* the encoder's table lookup on what the decoder's gave
GrayEncodeBinary ==
    /\ sym # NULL /\ sym.binary # <<>> /\ sym.level = <<>>
    /\ SymbolStep([sym EXCEPT !.level = GrayEncodeAll(sym.binary)])

\* the encoder's permutation loop
PermuteSymbols ==
    /\ sym # NULL /\ sym.permuted = <<>>
    /\ SymbolStep([sym EXCEPT !.permuted = Permute(sym.src)])

\* the encoder's layout loops
LayOutSymbols ==
    /\ sym # NULL /\ sym.permuted # <<>> /\ sym.laid = <<>>
    /\ SymbolStep([sym EXCEPT !.laid = Layout(sym.permuted)])

\* the decoder's extraction of the data slots and its reverse permutation
UnpermuteSymbols ==
    /\ sym # NULL /\ sym.laid # <<>> /\ sym.unpermuted = <<>>
    /\ SymbolStep([sym EXCEPT
                      !.unpermuted = Unpermute(DataSlots(sym.laid)),
                      !.writes = UnpermuteWrites(0, [k \in 1..NUM_SYMBOLS |-> 0])])

NextSymbols ==
    \/ GrayEncodeSymbols
    \/ GrayDecodeSymbols
    \/ GrayDecodeLevels
    \/ GrayEncodeBinary
    \/ PermuteSymbols
    \/ LayOutSymbols
    \/ UnpermuteSymbols

SpecSymbols == InitSymbols /\ [][NextSymbols]_vars

-----------------------------------------------------------------------------
(* decodeFromHeights called on readings that lie between the levels, below *)
(* 0 and above 7                                                           *)

\* readings are given in quarters of a level
Quarter == 4

\* every bar read too high or too low by the same amount (in quarters)
Drifts == {-2, -1, 0, 1, 2}

\* readings below 0 (-2, -0.75, -0.25) and above 7 (7.25, 7.5, 8.25, 15)
OutOfRange == {-8, -3, -1, 29, 30, 33, 60}

\* the marker slots as drawn; the start marker at 1.25; the center marker at
\* 5.75
MarkerDrifts == {<<0, 0>>, <<5, 0>>, <<0, -5>>}

\* the bars of id read with a drift, with slot `first` (0-based) read at
\* `reading` and the next symbol slot at `second` (NULL: as drifted)
FineReading(id, drift, markers, first, reading, second) ==
    LET drawn == encodeToHeights(NumberToString(id))
        next  == IF first = 10 THEN 12 ELSE IF first = 17 THEN 1 ELSE first + 1
    IN  [k \in 1..NUM_BARS |->
            IF k - 1 = 0 THEN Quarter * drawn[k] + markers[1]
            ELSE IF k - 1 = 11 THEN Quarter * drawn[k] + markers[2]
            ELSE IF k - 1 = NUM_BARS - 1 THEN Quarter * drawn[k]
            ELSE IF k - 1 = first /\ reading # NULL THEN reading.at
            ELSE IF k - 1 = next /\ reading # NULL /\ second # NULL THEN second.at
            ELSE IF (k - 1) \in SymbolSlots THEN Quarter * drawn[k] + drift
            ELSE Quarter * drawn[k]]

FineIds == {InitialId, Pow2Less1(IdBits)}

FineReadings ==
    {FineReading(id, drift, markers, 1, NULL, NULL) :
        id \in FineIds, drift \in Drifts, markers \in MarkerDrifts}
    \cup
    {FineReading(id, 0, markers, first, [at |-> reading], second) :
        id \in FineIds, markers \in MarkerDrifts, first \in SymbolSlots,
        reading \in OutOfRange, second \in {NULL, [at |-> -3], [at |-> 33]}}

\* a call not yet made
NoFine == [heights |-> <<>>, one |-> Quarter, grayVals |-> <<>>, result |-> NULL]

InitFine ==
    /\ \E g \in ScanGiven :
           /\ g.mag \in FineIds
           /\ Fresh(g, Decorated(g))
    /\ crcIn = <<>>
    /\ crcOut = <<>>
    /\ walk = NULL
    /\ sym = NULL
    /\ NoScan
    /\ \E h \in FineReadings :
           fine = [NoFine EXCEPT !.heights = h]
    /\ urlInput = <<>>
    /\ mappedId = <<>>
    /\ urlCall = NULL
    /\ mode = "generate"
    /\ scanMethod = "camera"
    /\ scanning = FALSE
    /\ stream = NULL
    /\ requested = 0
    /\ pending = 0
    /\ live = {}
    /\ capture = NULL

\* decodeFromHeights(heights); grayVals are the indexes its loop used on
\* GRAY_DECODE (none when it returned before the loop)
CallDecodeFromHeights ==
    /\ UNCHANGED <<urlInput, mappedId, urlCall, cameraVars>>
    /\ fine # NULL
    /\ fine.result = NULL
    /\ LET result == decodeReadings(fine.heights, fine.one)
       IN  fine' = [fine EXCEPT
                       !.result = result,
                       !.grayVals =
                           IF "error" \in DOMAIN result /\ "data" \notin DOMAIN result
                           THEN <<>>
                           ELSE GrayVals(fine.heights, fine.one)]
    /\ UNCHANGED <<given, mediaRef, bytes, checksum, permuted, encoded, heights,
                   error, scanned, edits, decoded, pc, crcIn, crcOut, walk, sym,
                   scanVars>>

SpecFine == InitFine /\ [][CallDecodeFromHeights]_vars

-----------------------------------------------------------------------------
(* Scanning a picture *)

White  == <<255, 255, 255>>
Black  == <<0, 0, 0>>
Grey66 == <<102, 102, 102>>     \* "#666666"

\* paper, ink, refInk: the colours of drawHeights, then pictures of little
\* contrast (around 128, all light, all dark), a dark picture of much
\* contrast, and inks whose three channels differ
Colourings ==
    {<<White, Black, Grey66>>,
     <<<<131, 131, 131>>, <<125, 125, 125>>, <<125, 125, 125>>>>,
     <<White, <<250, 250, 250>>, <<250, 250, 250>>>>,
     <<<<120, 120, 120>>, <<115, 115, 115>>, <<115, 115, 115>>>>,
     <<<<100, 100, 100>>, Black, Black>>,
     <<White, <<129, 127, 127>>, <<200, 0, 0>>>>,
     <<White, <<128, 128, 128>>, Grey66>>}

\* the heights the picture takes: even and odd
CanvasHeights == {8 * MaxUnit + 2, 8 * MaxUnit + 3}

\* levels drawn at (level + 1) * unit
Drawn(levels, unit, height, colours, barWidth, right) ==
    [barHeights |-> [k \in 1..Len(levels) |-> (levels[k] + 1) * unit],
     levels |-> levels, unit |-> unit, height |-> height,
     width |-> 2 + Len(levels) * (barWidth + 1) - 1 + right,
     barWidth |-> barWidth, spacing |-> 1, padding |-> 2, right |-> right,
     paper |-> colours[1], ink |-> colours[2], refInk |-> colours[3]]

BarsOf(id) == encodeToHeights(NumberToString(id))

\* the first n of the bars, or the bars and then more
Cut(levels, n) == SubSeq(levels, 1, n)

MoreBars == {<<3>>, <<0, 7>>}

\* bars drawn at another level: a symbol, a marker, a padding slot (0-based)
Damage == {<<1, 1>>, <<2, 3>>, <<0, 2>>, <<11, 5>>, <<11, 6>>, <<19, 4>>,
           <<22, 1>>, <<22, 3>>}

\* rows high, for pictures that are not drawn from levels: a streak above
\* sixteen times the lowest bar, and bars of one height
Streaked ==
    {[k \in 1..16 |-> IF k = 5 THEN 8 * MaxUnit + 2 ELSE IF k % 3 = 0 THEN 1 ELSE 6],
     [k \in 1..15 |-> IF k % 2 = 0 THEN 2 ELSE 5],
     [k \in 1..NUM_BARS |-> 7]}

Pictures ==
    {Drawn(BarsOf(id), unit, h, <<White, Black, Grey66>>, MinBarWidth, 2) :
        id \in ScanIds, unit \in 1..MaxUnit, h \in CanvasHeights}
    \cup {Drawn(BarsOf(InitialId), 2, 8 * MaxUnit + 2, c, MinBarWidth, 2) :
        c \in Colourings}
    \cup {Drawn(Cut(BarsOf(id), n), 2, 8 * MaxUnit + 2, <<White, Black, Grey66>>,
                MinBarWidth, 2) :
        id \in {InitialId, Pow2Less1(IdBits)}, n \in {14, 15, 16, 22}}
    \cup {Drawn(BarsOf(InitialId) \o m, u, 8 * MaxUnit + 3, <<White, Black, Black>>,
                MinBarWidth, 2) :
        m \in MoreBars, u \in {1, 2}}
    \cup {Drawn([BarsOf(InitialId) EXCEPT ![d[1] + 1] = d[2]], 2, 8 * MaxUnit + 2,
                <<White, Black, Grey66>>, MinBarWidth, 2) :
        d \in Damage}
    \cup {Drawn(BarsOf(id), 2, 8 * MaxUnit + 2, <<White, Black, Grey66>>, w, r) :
        id \in {InitialId}, w \in {MinBarWidth - 1, MinBarWidth + 1}, r \in {0, 2}}
    \cup {Drawn(BarsOf(InitialId), 2, 8 * MaxUnit + 2, <<White, Black, Grey66>>,
                MinBarWidth, 0)}
    \cup {[Drawn([k \in 1..Len(b) |-> 0], 1, 8 * MaxUnit + 3,
                   <<White, Black, Black>>, MinBarWidth, 2)
              EXCEPT !.barHeights = b, !.levels = <<>>] :
        b \in Streaked}

\* what decodeFromHeights makes of bars of InitialId drawn wrong: slot 2 at
\* level 3 gives this identifier with a CRC mismatch, slot 1 at level 1 gives
\* the other one, marked valid
MisreadId == MkNum(FALSE, 73, 9568978)
MistakenId == MkNum(FALSE, 8265, 9831122)

UrlOf(id) == "https://youtu.be/" \o ToString(id.lo % 1000)

StoreOf(ids) ==
    [key \in {NumberToString(id) : id \in ids} |->
        UrlOf(CHOOSE id \in ids : NumberToString(id) = key)]

\* the mapping store before the scan: empty, or with entries for two of the
\* encoded identifiers, for identifiers a misreading leads to, and an empty
\* text for identifier 0
Stores ==
    {<<>>,
     [k \in {NumberToString(Zero)} |-> ""]
         @@ StoreOf({InitialId, FromBytes(<<165, 255, 0, 1, 90>>),
                     MisreadId, MistakenId})}

InitScan ==
    /\ \E g \in {[kind |-> "int", pre |-> <<>>, mag |-> InitialId, sfx |-> <<>>]} :
           Fresh(g, Decorated(g))
    /\ crcIn = <<>>
    /\ crcOut = <<>>
    /\ walk = NULL
    /\ sym = NULL
    /\ canvas = NULL
    /\ scan = NULL
    /\ localStorage \in Stores
    /\ location = NULL
    /\ NoUi

\* handleUploadImage, img.onload: the picture is drawn on the scan canvas and
\* decodeCanvas runs on it; setDecoded(result), setError(out.error),
\* window.location.href = mapped
handleUploadImage ==
    /\ scan = NULL
    /\ location = NULL
    /\ \E picture \in Pictures :
           /\ canvas' = picture
           /\ scan' = decodeCanvas(picture, localStorage)
    /\ decoded' = IF "result" \in DOMAIN scan'.returned
                  THEN scan'.returned.result ELSE decoded
    /\ error' = IF "error" \in DOMAIN scan'.returned
                THEN scan'.returned.error ELSE error
    /\ location' = IF "redirected" \in DOMAIN scan'.returned
                   THEN [href |-> scan'.mapped.value] ELSE location
    /\ UNCHANGED <<given, mediaRef, bytes, checksum, permuted, encoded, heights,
                   scanned, edits, pc, crcIn, crcOut, walk, sym, localStorage,
                   uiVars>>

SpecScan == InitScan /\ [][handleUploadImage]_vars

-----------------------------------------------------------------------------
(* handleEncodeUrl: a URL is stored under a drawn identifier *)

\* if (attempts > 10) break
MaxAttempts == 10

RECURSIVE TrimEnd(_)
TrimEnd(s) ==
    IF s # <<>> /\ s[Len(s)] = " " THEN TrimEnd(SubSeq(s, 1, Len(s) - 1)) ELSE s

\* urlInput.trim()
Trim(s) == TrimEnd(TrimStart(s))

\* the characters of s as one text, as the store keeps it
RECURSIVE Text(_)
Text(s) == IF s = <<>> THEN "" ELSE s[1] \o Text(Tail(s))

\* what is typed into the URL field
UrlInputs == {<<>>, <<" ", " ">>, <<" ", "a", " ">>, <<"b">>}

\* the values Math.floor(Math.random() * 1e10) takes
UrlDraws == {Zero, InitialId}

\* the draws of one call, in order: one identifier n times, then another
DrawRuns ==
    {[k \in 1..(MaxAttempts + 1) |-> IF k <= n THEN a ELSE b] :
        n \in 0..(MaxAttempts + 1), a \in UrlDraws, b \in UrlDraws}

\* do { id = draw; attempts++; if (attempts > 10) break; }
\* while (localStorage.getItem("waveform:url:" + id))
RECURSIVE PickId(_, _, _)
PickId(store, draws, attempts) ==
    LET id == draws[attempts + 1]
        n  == attempts + 1
    IN  IF n > MaxAttempts THEN [id |-> id, attempts |-> n]
        ELSE IF Truthy(getItem(store, NumberToString(id)))
        THEN PickId(store, draws, n)
        ELSE [id |-> id, attempts |-> n]

\* localStorage.setItem("waveform:url:" + key, value)
setItem(store, key, value) ==
    [k \in DOMAIN store \cup {key} |-> IF k = key THEN value ELSE store[k]]

\* the store as earlier calls left it: empty, or holding one identifier
UrlStores == {<<>>, StoreOf({InitialId})}

\* onChange of the URL field
setUrlInput ==
    /\ \E text \in UrlInputs :
           /\ text # urlInput
           /\ urlInput' = text
    /\ UNCHANGED <<given, mediaRef, bytes, checksum, permuted, encoded, heights,
                   error, scanned, edits, decoded, pc, crcIn, crcOut, walk, sym,
                   scanVars, fine, mappedId, urlCall, cameraVars>>

\* the Encode button
handleEncodeUrl ==
    IF urlInput = <<>> \/ Trim(urlInput) = <<>>
    THEN /\ error' = "Enter a YouTube URL to encode"
         /\ urlCall' = [before |-> localStorage]
         /\ UNCHANGED <<given, mediaRef, bytes, checksum, permuted, encoded,
                        heights, scanned, edits, decoded, pc, crcIn, crcOut,
                        walk, sym, scanVars, fine, urlInput, mappedId,
                        cameraVars>>
    ELSE /\ \E pick \in {PickId(localStorage, draws, 0) : draws \in DrawRuns} :
                urlCall' = [before |-> localStorage, id |-> pick.id,
                            attempts |-> pick.attempts,
                            locals |-> EncodeLocals(NumberToString(pick.id))]
         /\ localStorage' = setItem(localStorage, NumberToString(urlCall'.id),
                                    Text(Trim(urlInput)))
         /\ mappedId' = NumberToString(urlCall'.id)
         /\ mediaRef' = NumberToString(urlCall'.id)
         /\ given' = [kind |-> "int", pre |-> <<>>, mag |-> urlCall'.id, sfx |-> <<>>]
         /\ bytes' = urlCall'.locals.bytes
         /\ checksum' = urlCall'.locals.checksum
         /\ permuted' = urlCall'.locals.permuted
         /\ encoded' = urlCall'.locals.heights
         /\ IF urlCall'.locals.heights # NULL
            THEN /\ heights' = urlCall'.locals.heights
                 /\ error' = ""
            ELSE /\ heights' = heights
                 /\ error' = "Failed to encode URL"
         /\ pc' = "generated"
         /\ UNCHANGED <<scanned, edits, decoded, crcIn, crcOut, walk, sym, canvas,
                        scan, location, fine, urlInput, cameraVars>>

InitUrl ==
    /\ \E g \in {[kind |-> "int", pre |-> <<>>, mag |-> InitialId, sfx |-> <<>>]} :
           Fresh(g, Decorated(g))
    /\ crcIn = <<>>
    /\ crcOut = <<>>
    /\ walk = NULL
    /\ sym = NULL
    /\ canvas = NULL
    /\ scan = NULL
    /\ localStorage \in UrlStores
    /\ location = NULL
    /\ NoUi

NextUrl == setUrlInput \/ handleEncodeUrl

SpecUrl == InitUrl /\ [][NextUrl]_vars

-----------------------------------------------------------------------------
(* The camera: the mode buttons, startScanning and the getUserMedia request *)
(* it awaits, stopScanning, captureAndDecode and the waitForMeta() promise  *)
(* it chains on.  A stream is [id |-> n], n the number of the request that  *)
(* yielded it.                                                              *)

\* most getUserMedia calls made
MaxRequests == 2

CameraError == "Camera error"

\* the codec, the URL field and the scan store take no part
codecVars == <<given, mediaRef, bytes, checksum, permuted, encoded, heights,
               scanned, edits, pc, crcIn, crcOut, walk, sym, localStorage,
               location, urlVars>>

\* stopScanning as rendered when the stream state was s: the tracks of s are
\* stopped; setStream(null); setScanning(false)
stopScanning(s) ==
    /\ live' = IF s # NULL THEN live \ {s.id} ELSE live
    /\ stream' = NULL
    /\ scanning' = FALSE

\* the Generate button: setMode("generate"); stopScanning()
clickGenerate ==
    /\ mode' = "generate"
    /\ stopScanning(stream)
    /\ UNCHANGED <<codecVars, canvas, scan, decoded, error, scanMethod,
                   requested, pending, capture>>

\* the Scan and the How It Works buttons: setMode
clickMode ==
    /\ \E m \in {"scan", "info"} :
           /\ m # mode
           /\ mode' = m
    /\ UNCHANGED <<codecVars, canvas, scan, decoded, error, scanMethod, scanning,
                   stream, requested, pending, live, capture>>

\* the Camera and Upload buttons of scan mode
setScanMethod ==
    /\ mode = "scan"
    /\ \E m \in {"camera", "upload"} :
           /\ m # scanMethod
           /\ scanMethod' = m
    /\ UNCHANGED <<codecVars, canvas, scan, decoded, error, mode, scanning,
                   stream, requested, pending, live, capture>>

\* the Start Camera button (shown in scan mode, camera method, not
\* scanning): startScanning up to its await
startScanning ==
    /\ mode = "scan" /\ scanMethod = "camera" /\ ~scanning
    /\ requested < MaxRequests
    /\ requested' = requested + 1
    /\ pending' = pending + 1
    /\ UNCHANGED <<codecVars, canvas, scan, decoded, error, mode, scanMethod,
                   scanning, stream, live, capture>>

\* getUserMedia resolves: setStream(s); setScanning(true); setDecoded(null);
\* setError("")
startScanningResolved ==
    /\ pending > 0
    /\ pending' = pending - 1
    /\ LET s == [id |-> requested - pending + 1]
       IN  /\ stream' = s
           /\ live' = live \cup {s.id}
    /\ scanning' = TRUE
    /\ decoded' = NULL
    /\ error' = ""
    /\ UNCHANGED <<codecVars, canvas, scan, mode, scanMethod, requested, capture>>

\* getUserMedia rejects: setError(...); setScanning(false)
startScanningRejected ==
    /\ pending > 0
    /\ pending' = pending - 1
    /\ error' = CameraError
    /\ scanning' = FALSE
    /\ UNCHANGED <<codecVars, canvas, scan, decoded, mode, scanMethod, stream,
                   requested, live, capture>>

\* the Stop button (shown in scan mode, camera method, scanning)
clickStop ==
    /\ mode = "scan" /\ scanMethod = "camera" /\ scanning
    /\ stopScanning(stream)
    /\ UNCHANGED <<codecVars, canvas, scan, decoded, error, mode, scanMethod,
                   requested, pending, capture>>

\* the Capture button (shown with the Stop button): captureAndDecode up to
\* waitForMeta().then
captureAndDecode ==
    /\ mode = "scan" /\ scanMethod = "camera" /\ scanning
    /\ capture = NULL
    /\ capture' = [stream |-> stream]
    /\ UNCHANGED <<codecVars, canvas, scan, decoded, error, mode, scanMethod,
                   scanning, stream, requested, pending, live>>

\* the frames the camera shows: the bars of an identifier, too few bars, bars
\* with a misread symbol
Frames ==
    {Drawn(BarsOf(InitialId), 2, 8 * MaxUnit + 2, <<White, Black, Grey66>>,
           MinBarWidth, 2),
     Drawn(Cut(BarsOf(InitialId), 14), 2, 8 * MaxUnit + 2, <<White, Black, Grey66>>,
           MinBarWidth, 2),
     Drawn([BarsOf(InitialId) EXCEPT ![3] = 3], 2, 8 * MaxUnit + 2,
           <<White, Black, Grey66>>, MinBarWidth, 2)}

\* decodeCanvas on each frame, the mapping store being empty
FrameScans == {[picture |-> p, out |-> decodeCanvas(p, <<>>)] : p \in Frames}

\* waitForMeta().then: the frame is drawn on the scan canvas and decoded;
\* stopScanning() if the result is valid, else setError(out.error)
captureResolved ==
    /\ capture # NULL
    /\ localStorage = <<>>
    /\ capture' = NULL
    /\ \E frame \in FrameScans :
           /\ canvas' = frame.picture
           /\ scan' = frame.out
    /\ decoded' = IF "result" \in DOMAIN scan'.returned
                  THEN scan'.returned.result ELSE decoded
    /\ error' = IF "error" \in DOMAIN scan'.returned
                THEN scan'.returned.error ELSE error
    /\ IF "result" \in DOMAIN scan'.returned /\ LooksUp(scan'.returned.result)
       THEN stopScanning(capture.stream)
       ELSE UNCHANGED <<live, stream, scanning>>
    /\ UNCHANGED <<codecVars, mode, scanMethod, requested, pending>>

InitCamera ==
    /\ \E g \in {[kind |-> "int", pre |-> <<>>, mag |-> InitialId, sfx |-> <<>>]} :
           Fresh(g, Decorated(g))
    /\ Idle

NextCamera ==
    \/ clickGenerate
    \/ clickMode
    \/ setScanMethod
    \/ startScanning
    \/ startScanningResolved
    \/ startScanningRejected
    \/ clickStop
    \/ captureAndDecode
    \/ captureResolved

SpecCamera == InitCamera /\ [][NextCamera]_vars

-----------------------------------------------------------------------------
(* Properties *)

\* the caller gave a plain decimal integer in [0, 2^40 - 1]
PlainId(g) ==
    g.kind = "int" /\ g.pre = <<>> /\ g.sfx = <<>> /\ g.mag.hi < 2^16

Verified(r) == "valid" \in DOMAIN r /\ r.valid

CrcMismatch(r) == "error" \in DOMAIN r /\ r.error = "CRC mismatch"

\* C1: an identifier in [0, 2^40 - 1] that is encoded and whose bars are
\* decoded as drawn comes back as the same identifier, marked valid, with no
\* error.
C1_RoundTrip ==
    (pc = "decoded" /\ edits = 0 /\ PlainId(given))
        => decoded = [data |-> given.mag, valid |-> TRUE]

C1_Witness ==
    /\ pc = "decoded"
    /\ PlainId(given)
    /\ given.mag = Pow2Less1(IdBits)
    /\ Verified(decoded)

\* the reading r is the bars h with one bit of one symbol slot flipped
SingleBitFlip(h, r) ==
    /\ Len(r) = Len(h)
    /\ \E slot \in SymbolSlots :
           /\ \E b \in 0..2 : r[slot + 1] = FlipLevelBit(h[slot + 1], b)
           /\ \A k \in 1..Len(h) : k # slot + 1 => r[k] = h[k]

\* C2: decoding the bars of a valid identifier with one bit of one symbol
\* slot flipped never verifies: it reports a CRC mismatch.
C2_ChecksumSensitivity ==
    (pc = "decoded" /\ SingleBitFlip(heights, scanned)) => CrcMismatch(decoded)

\* the five bytes of n, most significant first
BigEndian5(n) ==
    <<n.hi \div 256, n.hi % 256,
      n.lo \div 65536, (n.lo \div 256) % 256, n.lo % 256>>

\* C3: the bytes the checksum is taken over are the identifier's five bytes,
\* most significant first: byte k is floor(id / 256^(4-k)) mod 256.
C3_BigEndianBytes ==
    (encoded # NULL /\ PlainId(given)) => bytes = BigEndian5(given.mag)

\* the 40 message bits, most significant first, then 8 zero bits: the
\* coefficients of (message polynomial) * x^8
MessageBits(data) ==
    [k \in 1..48 |->
        IF k <= 40 THEN (data[((k - 1) \div 8) + 1] \div 2^(7 - ((k - 1) % 8))) % 2
        ELSE 0]

\* x^8 + x^2 + x + 1
GeneratorBits == <<1, 0, 0, 0, 0, 0, 1, 1, 1>>

\* one step of the long division over GF(2): clear coefficient i
DivideStep(bits, i) ==
    IF bits[i] = 0 THEN bits
    ELSE [k \in 1..48 |->
            IF k >= i /\ k <= i + 8 THEN (bits[k] + GeneratorBits[k - i + 1]) % 2
            ELSE bits[k]]

RECURSIVE Divide(_, _)
Divide(bits, i) == IF i > 40 THEN bits ELSE Divide(DivideStep(bits, i), i + 1)

RECURSIVE BitsValue(_, _, _)
BitsValue(bits, from, to) ==
    IF from > to THEN 0 ELSE bits[to] + 2 * BitsValue(bits, from, to - 1)

PolyRemainder(data) == BitsValue(Divide(MessageBits(data), 1), 41, 48)

\* C4: crc8 of five bytes is the remainder of (message polynomial) * x^8
\* divided by x^8 + x^2 + x + 1 over GF(2), and lies in 0..255.
C4_Crc8IsPolyRemainder ==
    crcOut # <<>> =>
        /\ crcOut[1] = PolyRemainder(crcIn)
        /\ crcOut[1] \in 0..255

C4_Witness == crcIn = <<1, 7, 128, 165, 255>> /\ crcOut = <<161>>

\* the integer the text spells lies in [0, 2^40 - 1]
InRange40(g) == (g.pre = <<>> \/ IsZero(g.mag)) /\ g.mag.hi < 2^16

\* C5: for an integer given in decimal, encodeToHeights returns a height
\* sequence when 0 <= id <= 2^40 - 1 and null when id < 0 or id > 2^40 - 1.
C5_RangeValidation ==
    (pc # "input" /\ given.kind = "int" /\ given.sfx = <<>>)
        => /\ (encoded # NULL) <=> InRange40(given)
           /\ encoded # NULL => Len(encoded) = NUM_BARS

C5_Witness ==
    /\ pc = "generated"
    /\ given.kind = "int" /\ given.pre = <<>> /\ given.sfx = <<>>
    /\ given.mag = Pow2(IdBits)
    /\ encoded = NULL

\* the text is an optional minus sign and decimal digits, nothing else
IsIntegerText(s) ==
    /\ s # <<>>
    /\ LET body == IF s[1] = "-" THEN Tail(s) ELSE s
       IN  body # <<>> /\ \A k \in 1..Len(body) : IsDigit(body[k])

\* C6: encodeToHeights returns null whenever the text given is not an integer.
C6_NonIntegerRejected ==
    (pc # "input" /\ ~IsIntegerText(mediaRef)) => encoded = NULL

\* C7: the 23 slots of an encoded sequence: markers 0, 7, 0 at slots 0, 11, 22,
\* permuted symbols 0-9 at slots 1-10 and 10-15 at slots 12-17, zero at slots
\* 18-21, every level in 0..7.
C7_BarLayout ==
    encoded # NULL =>
        /\ Len(encoded) = 23
        /\ \A k \in 1..23 : encoded[k] \in 0..7
        /\ encoded[1] = 0 /\ encoded[23] = 0 /\ encoded[12] = 7
        /\ Len(permuted) = 16
        /\ \A j \in 1..10 : encoded[j + 1] = permuted[j]
        /\ \A j \in 12..17 : encoded[j + 1] = permuted[j - 1]
        /\ \A j \in 18..21 : encoded[j + 1] = 0

C7_Witness ==
    /\ encoded # NULL
    /\ PlainId(given)
    /\ given.mag = Pow2Less1(IdBits)
    /\ \A j \in 12..17 : encoded[j + 1] = 4

BarCountError == [error |-> "Invalid bar count"]
EndMarkersError == [error |-> "Invalid start/end markers"]
CenterMarkerError == [error |-> "Invalid center reference bar"]

\* C8: the structural rejects of decodeFromHeights: wrong slot count iff the
\* length is not 23; then invalid start/end markers iff slot 0 > 1 or
\* slot 22 > 1; then invalid center marker iff slot 11 < 6; markers within
\* tolerance are accepted.
C8_StructuralRejects ==
    pc = "decoded" =>
        /\ decoded = BarCountError <=> Len(scanned) # 23
        /\ Len(scanned) = 23 =>
              /\ decoded = EndMarkersError <=> (scanned[1] > 1 \/ scanned[23] > 1)
              /\ (scanned[1] <= 1 /\ scanned[23] <= 1) =>
                     (decoded = CenterMarkerError <=> scanned[12] < 6)
              /\ (scanned[1] \in {0, 1} /\ scanned[23] \in {0, 1}
                    /\ scanned[12] \in {6, 7}) =>
                     decoded \notin {BarCountError, EndMarkersError, CenterMarkerError}

C8_Witness ==
    /\ pc = "decoded"
    /\ Len(scanned) = 23
    /\ scanned[1] = 1 /\ scanned[23] = 0 /\ scanned[12] = 6
    /\ Verified(decoded)

\* the 0-based slot that carries symbol k of the payload (k = 0 is the most
\* significant group)
SlotOfSymbol(k) ==
    LET i == CHOOSE i \in 0..15 : (i * 7) % 16 = k
    IN  IF i < 10 THEN i + 1 ELSE i + 2

\* the binary value of the level read at a slot
SymbolRead(r, k) ==
    LET level == r[SlotOfSymbol(k) + 1]
        g == IF level < 0 THEN 0 ELSE IF level > 7 THEN 7 ELSE level
    IN  CHOOSE v \in 0..7 : GRAY_ENCODE[v + 1] = g

\* the low 8 bits of the 48-bit payload a reading carries
EmbeddedChecksum(r) ==
    (SymbolRead(r, 13) % 4) * 64 + SymbolRead(r, 14) * 8 + SymbolRead(r, 15)

MarkersPass(r) ==
    Len(r) = 23 /\ r[1] <= 1 /\ r[23] <= 1 /\ r[12] >= 6

\* C9: a 23-slot reading that passes the marker checks always yields an
\* identifier, valid iff the CRC over that identifier equals the embedded
\* checksum, and otherwise with a CRC error and never valid; every other
\* failure yields no identifier.
C9_DecodeOutcome ==
    pc = "decoded" =>
        IF MarkersPass(scanned)
        THEN /\ "data" \in DOMAIN decoded
             /\ IF crc8(numToBytes(decoded.data, 5)) = EmbeddedChecksum(scanned)
                THEN decoded = [data |-> decoded.data, valid |-> TRUE]
                ELSE CrcMismatch(decoded) /\ "valid" \notin DOMAIN decoded
        ELSE "data" \notin DOMAIN decoded /\ "error" \in DOMAIN decoded

C9_Witness ==
    /\ pc = "decoded"
    /\ MarkersPass(scanned)
    /\ CrcMismatch(decoded)
    /\ "data" \in DOMAIN decoded
    /\ decoded.data # given.mag

\* C10: the spread permutation is one 16-cycle: a walk that comes back to its
\* start has taken 16 steps and seen all 16 positions.
C10_Single16Cycle ==
    (walk # NULL /\ walk.steps > 0 /\ walk.pos = walk.start)
        => walk.steps = 16 /\ walk.seen = 0..15

\* C10 as amended: the spread permutation is a bijection of 0..15 that is its
\* own inverse: two steps lead back to the start, one step does so only from
\* the fixed positions 0 and 8, and no walk sees more than two positions.
C10_Involution ==
    walk # NULL =>
        /\ walk.steps % 2 = 0 => walk.pos = walk.start
        /\ walk.steps % 2 = 1 => (walk.pos = walk.start <=> walk.start \in {0, 8})
        /\ Cardinality(walk.seen) <= 2
        /\ Cardinality({SpreadIndex(i) : i \in 0..15}) = 16

C10_Witness ==
    /\ walk # NULL
    /\ walk.start = 3 /\ walk.steps = 2 /\ walk.pos = 3 /\ walk.seen = {3, 5}

\* C11: a 16-element sequence taken through the encode permutation (and the
\* layout) and then through the decode inverse comes back unchanged, and the
\* decode loop writes every one of the 16 positions exactly once.
C11_PermutationRoundTrip ==
    (sym # NULL /\ sym.unpermuted # <<>>)
        => /\ sym.unpermuted = sym.src
           /\ \A k \in 1..NUM_SYMBOLS : sym.writes[k] = 1

C11_Witness ==
    /\ sym # NULL
    /\ sym.src = Tagged(3, 5)
    /\ sym.unpermuted # <<>>
    /\ sym.permuted[2] = sym.src[8]
    /\ sym.unpermuted = sym.src

Injective(s) == \A j, k \in 1..Len(s) : s[j] = s[k] => j = k

\* the 0-based index in src of the symbol that lies in 0-based slot j
OriginIndex(j) == (CHOOSE k \in 1..NUM_SYMBOLS : sym.src[k] = sym.laid[j + 1]) - 1

\* C12: no two symbols whose indices in the sequence before the permutation
\* differ by exactly 1 lie in adjacent slots j, j + 1 of the 23 bars.
C12_ErrorSpreading ==
    (sym # NULL /\ sym.laid # <<>> /\ Injective(sym.src))
        => \A j \in SymbolSlots :
              (j + 1) \in SymbolSlots =>
                  /\ OriginIndex(j) - OriginIndex(j + 1) # 1
                  /\ OriginIndex(j + 1) - OriginIndex(j) # 1

C12_Witness ==
    /\ sym # NULL
    /\ sym.src = Tagged(1, 0)
    /\ sym.laid = <<0, 0, 7, 14, 5, 12, 3, 10, 1, 8, 15, 7,
                    6, 13, 4, 11, 2, 9, 0, 0, 0, 0, 0>>

Range(s) == {s[k] : k \in 1..Len(s)}

\* C13: the Gray tables undo each other in both orders on every value of
\* 0..7, and each maps 0..7 onto 0..7 without repeating a value.
C13_GrayTablesInverse ==
    sym # NULL =>
        /\ sym.back # <<>> => sym.back = sym.src
        /\ sym.level # <<>> => sym.level = sym.src
        /\ sym.gray # <<>> =>
               /\ Range(sym.gray) \subseteq 0..7
               /\ Cardinality(Range(sym.gray)) = Cardinality(Range(sym.src))
        /\ sym.binary # <<>> =>
               /\ Range(sym.binary) \subseteq 0..7
               /\ Cardinality(Range(sym.binary)) = Cardinality(Range(sym.src))

C13_Witness ==
    /\ sym # NULL
    /\ sym.src = Ramp(0)
    /\ Range(sym.gray) = 0..7
    /\ Range(sym.binary) = 0..7
    /\ sym.back = sym.src
    /\ sym.level = sym.src

\* in how many of their three bits two levels differ
BitsApart(a, b) ==
    LET x == XorBits(a, b, 3)
    IN  (x % 2) + ((x \div 2) % 2) + ((x \div 4) % 2)

\* C14: the Gray levels of two symbols v and v + 1 (v in 0..6) differ in
\* exactly one of their three bits.
C14_GrayAdjacency ==
    (sym # NULL /\ sym.gray # <<>>)
        => \A k \in 1..(NUM_SYMBOLS - 1) :
              sym.src[k + 1] = sym.src[k] + 1
                  => BitsApart(sym.gray[k], sym.gray[k + 1]) = 1

C14_Witness ==
    /\ sym # NULL
    /\ sym.src = Ramp(0)
    /\ sym.gray # <<>>
    /\ SubSeq(sym.gray, 1, 8) = <<0, 1, 3, 2, 6, 7, 5, 4>>
    /\ BitsApart(sym.gray[4], sym.gray[5]) = 1

\* the scan ended in the detector's error: no result, no levels
DetectorError == "error" \in DOMAIN scan.returned

\* C15: the bars used are those of a scan line that gave the most bars, and
\* the scan fails with the insufficient-bars error, the height decoder not
\* called and no identifier shown, iff that line has fewer than 15 bars.
C15_BestLineAndMinimum ==
    scan # NULL =>
        /\ \E k \in 1..Len(scan.lines) :
              /\ scan.bestBars = scan.lines[k]
              /\ \A j \in 1..Len(scan.lines) :
                     Len(scan.lines[j]) <= Len(scan.lines[k])
        /\ DetectorError <=> Len(scan.bestBars) < 15
        /\ DetectorError =>
              /\ DOMAIN scan.returned = {"error"}
              /\ error = scan.returned.error
              /\ scan.finalHeights = <<>>
              /\ decoded = NULL
        /\ ~DetectorError =>
              /\ "result" \in DOMAIN scan.returned
              /\ decoded = scan.returned.result

C15_Witness ==
    /\ scan # NULL
    /\ Len(scan.bestBars) = 14
    /\ scan.bestBars = scan.lines[3]
    /\ Len(scan.lines[1]) < 14
    /\ error = "Only found 14 bars. Need at least 15."
    /\ decoded = NULL

\* level is round(height / (maxHeight / 8)) - 1, halves going up, brought
\* into 0..7
IsLevelOf(level, height, maxHeight) ==
    \E r \in 0..8 :
        /\ (2 * r - 1) * maxHeight <= 16 * height
        /\ 16 * height < (2 * r + 1) * maxHeight
        /\ level = IF r - 1 < 0 THEN 0 ELSE IF r - 1 > 7 THEN 7 ELSE r - 1

\* C16: the levels handed to the height decoder are 23 levels in 0..7: for
\* each detected bar, from the left, round(height / unit) - 1 brought into
\* 0..7, with unit = (highest measured bar) / 8; zeros after the last bar
\* when fewer than 23 were found; the first 23 when more were found.
C16_Quantization ==
    (scan # NULL /\ ~DetectorError) =>
        LET n == Len(scan.bestBars)
            maxHeight == SetMax({scan.bestBars[k].height : k \in 1..n})
        IN  /\ Len(scan.finalHeights) = 23
            /\ \A k \in 1..23 :
                  /\ scan.finalHeights[k] \in 0..7
                  /\ IF k <= n
                     THEN IsLevelOf(scan.finalHeights[k],
                                    scan.bestBars[k].height, maxHeight)
                     ELSE scan.finalHeights[k] = 0
            /\ scan.returned.result = decodeFromHeights(scan.finalHeights)

C16_Witness ==
    /\ scan # NULL
    /\ Len(scan.bestBars) = 25
    /\ scan.bestBars[25].height = 8 * scan.bestBars[1].height
    /\ Len(scan.finalHeights) = 23
    /\ scan.finalHeights[12] = 7
    /\ Verified(decoded)

\* every bar of the picture was found and measured as high as it is drawn
MeasuredAsDrawn ==
    /\ Len(scan.bestBars) = Len(canvas.levels)
    /\ \A k \in 1..Len(canvas.levels) :
           scan.bestBars[k].height = (canvas.levels[k] + 1) * canvas.unit

\* C17: when the 23 bars of an encoded sequence are measured as high as they
\* are drawn, (level + 1) * unit for a unit of 1 or more rows, each detected
\* level is within 1 of the encoded level.
C17_RenderMeasure ==
    (/\ scan # NULL
     /\ canvas.levels \in {BarsOf(id) : id \in ScanIds}
     /\ MeasuredAsDrawn)
        => /\ Len(scan.detectedHeights) = 23
           /\ \A k \in 1..23 :
                  /\ scan.detectedHeights[k] - canvas.levels[k] <= 1
                  /\ canvas.levels[k] - scan.detectedHeights[k] <= 1

C17_Witness ==
    /\ scan # NULL
    /\ canvas.levels = BarsOf(FromBytes(<<165, 255, 0, 1, 90>>))
    /\ canvas.unit = MaxUnit
    /\ MeasuredAsDrawn
    /\ scan.detectedHeights = canvas.levels

Brightness3(colour) == colour[1] + colour[2] + colour[3]

Distance(a, b) == IF a < b THEN b - a ELSE a - b

\* three times the contrast of the picture: how far the inks are from the
\* paper
Contrast3(cv) ==
    LET paper == Brightness3(cv.paper)
        a == Distance(paper, Brightness3(cv.ink))
        b == Distance(paper, Brightness3(cv.refInk))
    IN  IF a > b THEN a ELSE b

Dark(colour) == Brightness3(colour) < 3 * 128

DecodeError ==
    "result" \in DOMAIN scan.returned /\ "error" \in DOMAIN scan.returned.result

\* C19: a scan redirects only when the result is valid and the mapping store
\* holds a URL for the decoded identifier, and then to that URL; a CRC
\* mismatch, a marker error or a detector error never redirects, whatever the
\* store holds.
C19_RedirectSafety ==
    scan # NULL =>
        /\ location # NULL =>
              /\ ~DetectorError
              /\ decoded = scan.returned.result
              /\ Verified(decoded)
              /\ LET key == NumberToString(decoded.data)
                 IN  /\ key \in DOMAIN localStorage
                     /\ localStorage[key] # ""
                     /\ location = [href |-> localStorage[key]]
        /\ (DetectorError \/ DecodeError) => location = NULL

C19_Witness ==
    /\ scan # NULL
    /\ CrcMismatch(decoded)
    /\ decoded.data = MisreadId
    /\ NumberToString(decoded.data) \in DOMAIN localStorage
    /\ location = NULL

\* the reading with level 0 at the four padding slots
PaddingCleared(reading) ==
    [k \in 1..Len(reading) |-> IF (k - 1) \in PaddingSlots THEN 0 ELSE reading[k]]

\* C20: what decodeFromHeights returns for 23 slots (identifier, valid flag
\* or error) does not depend on slots 18-21: it is what it returns for the
\* same slots with the four padding slots at 0, so two inputs that differ
\* only there decode alike.
C20_PaddingDiscarded ==
    (pc = "decoded" /\ Len(scanned) = 23)
        => decoded = decodeFromHeights(PaddingCleared(scanned))

C20_Witness ==
    /\ pc = "decoded"
    /\ Len(scanned) = 23
    /\ scanned[19] = 7 /\ scanned[22] = 4
    /\ PaddingCleared(scanned) = heights
    /\ decoded = [data |-> given.mag, valid |-> TRUE]

-----------------------------------------------------------------------------
\* a reading q (in one-ths) cut to the range of the levels
Saturated(q, one) == IF q > 7 * one THEN 7 * one ELSE IF q < 0 THEN 0 ELSE q

\* every symbol slot of h cut to the range of the levels
SaturatedSlots(h, one) ==
    [k \in 1..Len(h) |->
        IF (k - 1) \in SymbolSlots THEN Saturated(h[k], one) ELSE h[k]]

\* v is an integer nearest to q / one
Nearest(v, q, one) ==
    LET d == v * one - q
    IN  2 * (IF d < 0 THEN -d ELSE d) <= one

\* C21: when a 23-slot reading passes the marker checks, GRAY_DECODE is
\* indexed 16 times, each time at a level in 0..7: at 7 for a slot read above
\* 7, at 0 for a slot read below 0, at a nearest integer otherwise; and the
\* result is that of the same reading with those slots at 7 and at 0.
C21_ClampBeforeGray ==
    (/\ fine # NULL
     /\ fine.result # NULL
     /\ ~BadEndMarkers(fine.heights, fine.one)
     /\ ~BadCenterMarker(fine.heights, fine.one))
        => /\ Len(fine.grayVals) = NUM_SYMBOLS
           /\ \A k \in 0..(NUM_SYMBOLS - 1) :
                  LET q == fine.heights[SlotOfSymbol(k) + 1]
                      v == fine.grayVals[k + 1]
                  IN  /\ v \in 0..7
                      /\ q > 7 * fine.one => v = 7
                      /\ q < 0 => v = 0
                      /\ (q >= 0 /\ q <= 7 * fine.one) => Nearest(v, q, fine.one)
           /\ fine.result
                  = decodeReadings(SaturatedSlots(fine.heights, fine.one), fine.one)

\* a verified reading with one symbol slot above 7 and another below 0
C21_Witness ==
    /\ fine # NULL
    /\ fine.result = [data |-> given.mag, valid |-> TRUE]
    /\ \E a, b \in SymbolSlots :
           /\ fine.heights[a + 1] > 7 * fine.one
           /\ fine.heights[b + 1] < 0

-----------------------------------------------------------------------------
\* the maximal runs of bar pixels on row y, each as <<first column, width>>
MaximalRuns(cv, y) ==
    LET columns == 0..(cv.width - 1)
        black   == {x \in columns : isBlack(cv, x, y)}
        firsts  == {x \in black : (x - 1) \notin black}
        lasts   == {x \in black : (x + 1) \notin black}
    IN  {<<a, SetMin({b \in lasts : b >= a}) - a + 1>> : a \in firsts}

\* bars are the runs of `runs`, each once, from left to right
ReportsRuns(bars, runs) ==
    /\ Len(bars) = Cardinality(runs)
    /\ \A j \in 1..Len(bars) : <<bars[j].barStart, bars[j].barWidth>> \in runs
    /\ \A j \in 1..(Len(bars) - 1) : bars[j].barStart < bars[j + 1].barStart

\* C22: the bars found on each scan line are the maximal runs of bar pixels
\* of that row that are at least 8 columns wide, from left to right, a run
\* that reaches the last column of the picture included.
C22_RunDetection ==
    scan # NULL =>
        \A k \in 1..Len(scan.lines) :
            ReportsRuns(scan.lines[k],
                        {r \in MaximalRuns(canvas, scanLines(canvas)[k]) : r[2] >= 8})

-----------------------------------------------------------------------------
\* C23: when handleEncodeUrl stores a mapping, the identifier it stores under
\* had no mapping in the store as the call found it.
C23_NeverReusesId ==
    (urlCall # NULL /\ "id" \in DOMAIN urlCall)
        => NumberToString(urlCall.id) \notin DOMAIN urlCall.before

-----------------------------------------------------------------------------
\* the reading r with its three markers as drawn
MarkersAsDrawn(r) == [r EXCEPT ![1] = 0, ![12] = 7, ![NUM_BARS] = 0]

\* the data slots of r carry a checksum that matches their identifier
ChecksumWouldMatch(r) == Verified(decodeFromHeights(MarkersAsDrawn(r)))

\* C24: the first failing check, in the order slot count, start/end markers,
\* center marker, checksum, decides the error: a wrong slot count whatever
\* the markers read; bad start/end markers whatever the center marker and the
\* checksum; a bad center marker whatever the checksum; the CRC error only
\* when count and markers pass.
C24_ErrorPrecedence ==
    pc = "decoded" =>
        IF Len(scanned) # 23 THEN decoded = BarCountError
        ELSE IF scanned[1] > 1 \/ scanned[23] > 1 THEN decoded = EndMarkersError
        ELSE IF scanned[12] < 6 THEN decoded = CenterMarkerError
        ELSE IF ~ChecksumWouldMatch(scanned) THEN CrcMismatch(decoded)
        ELSE Verified(decoded)

\* start marker above 1 and center marker below 6 on data slots whose
\* checksum matches: the start/end marker error
C24_Witness ==
    /\ pc = "decoded"
    /\ Len(scanned) = 23
    /\ scanned[1] > 1
    /\ scanned[12] < 6
    /\ ChecksumWouldMatch(scanned)
    /\ decoded = EndMarkersError

-----------------------------------------------------------------------------
=============================================================================
